---- MODULE Spec2Model ----
(***************************************************************************)
(* pytest-async-mongodb: the fixture layer of src/pytest_async_mongodb/    *)
(* plugin.py as a state machine.                                           *)
(*                                                                         *)
(* One test process: a configuration (fixture directory listing, fixture  *)
(* selection list), the process-wide fixture cache, and per test a fresh   *)
(* AsyncMockMongoClient whose databases and collections are created on     *)
(* lookup.  Adapted (ASYNC_METHODS) calls go through wrapper(): the call   *)
(* is handed to an executor thread and the calling task waits for it.      *)
(*                                                                         *)
(* mongomock (Collection, Database, MongoClient, Cursor) and the decoders  *)
(* (json.load, yaml.load) are external: only the part of their contract    *)
(* the plugin relies on is modelled, at the places the plugin calls them.  *)
(* A file's text is represented by the document list it decodes to.        *)
(***************************************************************************)
EXTENDS Integers, Sequences, FiniteSets, TLC

----------------------------------------------------------------------------
(* Bounds of the model *)

\* tests run in one process
MaxTests == 2
\* operations one test body performs on its handle
MaxOps == 2
\* entries of the fixture directory
MaxFiles == 2
\* ObjectIds the engine generates in one process
MaxOid == 3
\* load_fixture executions running at the same time
MaxLoaders == 2

----------------------------------------------------------------------------
(* Values *)

Range(s) == { s[i] : i \in DOMAIN s }

\* the empty dict
EmptyMap == <<>>

\* file names and collection names are strings, written as character sequences
Dot == "."
NameA == <<"a">>
NameB == <<"b">>
FileNames ==
  { <<"a", ".", "j", "s", "o", "n">>,
    <<"a", ".", "y", "a", "m", "l">>,
    <<"b", ".", "j", "s", "o", "n">>,
    <<"b", ".", "t", "x", "t">>,
    <<".", "j", "s", "o", "n">> }

\* documents: mappings with or without the identity field
Key(n) == <<"k", n>>
ObjectId(n) == <<"oid", n>>
IsObjectId(id) == id[1] = "oid"
D1 == [_id |-> Key(1), v |-> "x"]
D2 == [_id |-> Key(2), v |-> "y"]
D1b == [_id |-> Key(1), v |-> "y"]
D0 == [v |-> "z"]
Docs == { D1, D2, D1b, D0 }

\* what a fixture file may hold: a top-level sequence of documents
Contents == { <<>>, <<D1, D2>>, <<D0>>, <<D1, D1b>> }

\* async_mongodb_fixtures (ini linelist); not set is the empty list
Selections == { <<>>, <<NameA>>, <<NameA, NameB>> }

\* sequences of distinct file names, as os.listdir may return them
Listings ==
  { s \in UNION { [1..n -> FileNames] : n \in 0..MaxFiles } :
      \A i, j \in DOMAIN s : i # j => s[i] # s[j] }

\* a fixture file is named <collection-name>.json or <collection-name>.yaml
EndsWith(s, e) == Len(s) > Len(e) /\ SubSeq(s, Len(s) - Len(e) + 1, Len(s)) = e
IsFixtureFile(f) ==
  EndsWith(f, <<".", "j", "s", "o", "n">>) \/ EndsWith(f, <<".", "y", "a", "m", "l">>)
FixtureName(f) == SubSeq(f, 1, Len(f) - 5)

\* directories: the working directory at the start of the run, the one the
\* command line may name, the one the ini file may name, and another one
DirCwd == "cwd"
DirOpt == "opt"
DirIni == "ini"
DirTmp == "tmp"
Dirs == { DirCwd, DirOpt, DirIni, DirTmp }

\* option and ini values: None or a string
NoValue == [kind |-> "None"]
Str(s) == [kind |-> "str", val |-> s]

DbNames == { "pytest", "aux" }
CollNames == { NameA, NameB }

----------------------------------------------------------------------------
(* Pure functions of the plugin *)

\* index of the last "." of s, 0 when there is none
LastDot(s) ==
  IF \E i \in DOMAIN s : s[i] = Dot
    THEN CHOOSE i \in DOMAIN s : s[i] = Dot /\ \A j \in DOMAIN s : s[j] = Dot => j <= i
    ELSE 0

\* os.path.splitext(os.path.basename(file_name)); a listdir entry holds no
\* separator, so basename leaves it as it is.  Leading dots belong to the root.
SplitExt(s) ==
  LET i == LastDot(s) IN
  IF i = 0 \/ (\A j \in 1..i : s[j] = Dot)
    THEN <<s, <<>>>>
    ELSE <<SubSeq(s, 1, i - 1), SubSeq(s, i, Len(s))>>

\* ext.strip("."): leading and trailing dots removed
RECURSIVE LStrip(_)
LStrip(s) == IF s # <<>> /\ Head(s) = Dot THEN LStrip(Tail(s)) ELSE s
RECURSIVE RStrip(_)
RStrip(s) ==
  IF s # <<>> /\ s[Len(s)] = Dot THEN RStrip(SubSeq(s, 1, Len(s) - 1)) ELSE s
StripDots(s) == RStrip(LStrip(s))

\* a variant of Supported that knows json only
SupportedJsonOnly(file_format) == file_format = <<"j", "s", "o", "n">>

\* file_format in ("json", "yaml")
Supported(file_format) ==
  file_format \in { <<"j", "s", "o", "n">>, <<"y", "a", "m", "l">> }

\* a variant of Selected that takes an empty selection list for "all"
SelectedOrAll(fixtures, collection) ==
  fixtures = <<>> \/ collection \in Range(fixtures)

\* fixtures and collection in fixtures
Selected(fixtures, collection) ==
  fixtures # <<>> /\ collection \in Range(fixtures)

\* ASYNC_METHODS of AsyncCollection and of AsyncDatabase
CollectionAsyncMethods ==
  { "find_one_and_delete", "find_one_and_replace", "find_one_and_update",
    "find_and_modify", "save", "delete_one", "delete_many", "count",
    "insert_one", "insert_many", "update_one", "update_many", "replace_one",
    "count_documents", "estimated_document_count", "drop", "create_index",
    "ensure_index", "map_reduce", "distinct" }
DatabaseAsyncMethods == { "collection_names" }

\* the methods this layer defines with "async def": find_one, line 126
IsCoroutineFunction(type, name) == type = "AsyncCollection" /\ name = "find_one"

\* a variant of IsWrapped that wraps every method
IsWrappedAll(type, name) == TRUE

\* a variant of IsWrapped that knows the list of AsyncDatabase only
IsWrappedDatabase(type, name) ==
  type = "AsyncDatabase" /\ name \in DatabaseAsyncMethods

\* AsyncClassMethod.__getattribute__: a bound method whose name is in the
\* type's ASYNC_METHODS comes back wrapped, anything else as it is
IsWrapped(type, name) ==
  IF type = "AsyncCollection" THEN name \in CollectionAsyncMethods
  ELSE IF type = "AsyncDatabase" THEN name \in DatabaseAsyncMethods
  ELSE FALSE

\* a variant of Awaited that swallows what the call raised
AwaitedSuppress(result) ==
  IF result.kind \in { "DuplicateKeyError", "TypeError" } THEN [kind |-> "None"]
  ELSE result

\* wrapper, line 47: return await loop.run_in_executor(...): what the thread
\* returned is returned, what it raised is raised
Awaited(result) == result

\* wrapper(func)(*args, **kwargs): functools.partial(func, *args, **kwargs)
\* handed to loop.run_in_executor; the job waits for an executor thread
Wrapped(func, args) ==
  [state |-> "queued", func |-> func, args |-> args, calls |-> 0,
   result |-> [kind |-> "pending"], pre |-> <<>>]

NoJob == [state |-> "none"]

\* filters as the caller passes them: None, a mapping, anything else
FilterNone == [kind |-> "none"]
FilterMap(m) == [kind |-> "map", spec |-> m]
FilterScalar(x) == [kind |-> "scalar", val |-> x]
IsMapping(filter) == filter.kind = "map"

\* a variant of FindSpec that takes a non-mapping for an _id, as find_one does
FindSpecCoerce(filter) ==
  IF filter.kind = "none" THEN FilterMap(EmptyMap)
  ELSE IF filter.kind = "scalar" THEN FilterMap([_id |-> filter.val])
  ELSE filter

\* a variant of FindSpec that leaves None as it is
FindSpecKeepNone(filter) == filter

\* AsyncCollection.find, lines 114-116: spec = filter; None becomes {}
FindSpec(filter) == IF filter.kind = "none" THEN FilterMap(EmptyMap) ELSE filter

\* a variant of FindOneFilter without the _id convenience
FindOneFilterPlain(filter) ==
  IF filter.kind = "none" THEN FilterMap(EmptyMap) ELSE filter

\* AsyncCollection.find_one, lines 130-133: None becomes {}, a non-mapping x
\* becomes {"_id": x}
FindOneFilter(filter) ==
  LET f == IF filter.kind = "none" THEN FilterMap(EmptyMap) ELSE filter IN
  IF ~IsMapping(f) THEN FilterMap([_id |-> f.val]) ELSE f

----------------------------------------------------------------------------
(* The part of the engine's contract the plugin relies on *)

\* a stored document matches a filter mapping (only {} and {"_id": x} are used)
Matches(spec, doc) == \A k \in DOMAIN spec : k \in DOMAIN doc /\ doc[k] = spec[k]

\* Cursor(collection, spec, ...): the matching documents in insertion order
Dataset(docs, spec) == SelectSeq(docs, LAMBDA d : Matches(spec, d))

\* names starting with "system." are system collections
IsSystem(name) ==
  Len(name) >= 7 /\ SubSeq(name, 1, 7) = <<"s", "y", "s", "t", "e", "m", ".">>

\* Collection.insert_one(data): an absent _id is filled in, in the mapping
\* that was passed; a stored _id is refused; the store keeps a copy
InsertOne(docs, data, oid) ==
  LET d == IF "_id" \in DOMAIN data THEN data ELSE [_id |-> ObjectId(oid)] @@ data IN
  IF \E i \in DOMAIN docs : docs[i]._id = d._id
    THEN [ret |-> [kind |-> "DuplicateKeyError"], docs |-> docs, data |-> d]
    ELSE [ret |-> [kind |-> "InsertOneResult", inserted_id |-> d._id],
          docs |-> Append(docs, d), data |-> d]

\* Collection.count_documents(filter)
CountDocuments(docs, spec) ==
  [ret |-> [kind |-> "int", n |-> Len(Dataset(docs, spec))], docs |-> docs]

\* Collection.delete_many(filter)
DeleteMany(docs, spec) ==
  [ret |-> [kind |-> "DeleteResult", n |-> Len(Dataset(docs, spec))],
   docs |-> SelectSeq(docs, LAMBDA d : ~Matches(spec, d))]

\* Database.collection_names(include_system_collections=False)
CollectionNames(colls) == { n \in DOMAIN colls : ~IsSystem(n) }

\* Database.drop_collection(name) for every name of a list
DropAll(colls, names) == [n \in DOMAIN colls \ names |-> colls[n]]

\* AsyncCollection.find, lines 114-124: a filter that is not a mapping raises
\* TypeError before the cursor is built; cursor tells whether AsyncCursor(...)
\* ran
Find(docs, filter) ==
  LET spec == FindSpec(filter) IN
  IF ~IsMapping(spec)
    THEN [ret |-> [kind |-> "TypeError"], cursor |-> FALSE]
    ELSE [ret |-> [kind |-> "cursor", docs |-> Dataset(docs, spec.spec), pos |-> 1],
          cursor |-> TRUE]

\* AsyncCollection.find_one, lines 135-139: next(cursor), None when the
\* cursor is exhausted
FindOne(docs, filter) ==
  LET found == Find(docs, FindOneFilter(filter)) IN
  IF found.ret.kind = "TypeError" THEN found.ret
  ELSE IF found.ret.docs = <<>> THEN [kind |-> "None"]
  ELSE [kind |-> "doc", doc |-> Head(found.ret.docs)]

\* next(cursor) on the engine's Cursor: the next document of the dataset,
\* StopIteration after the last
CursorNext(cursor) ==
  IF cursor.pos <= Len(cursor.docs)
    THEN [ret |-> [kind |-> "doc", doc |-> cursor.docs[cursor.pos]],
          cursor |-> [cursor EXCEPT !.pos = @ + 1]]
    ELSE [ret |-> [kind |-> "StopIteration"], cursor |-> cursor]

\* AsyncCursor.__aiter__, lines 63-64: return self
AIter(cursor) == cursor

\* a variant of ANext that returns None at the end of the dataset
ANextNone(cursor) ==
  LET out == CursorNext(cursor) IN
  IF out.ret.kind = "StopIteration" THEN [out EXCEPT !.ret = [kind |-> "None"]]
  ELSE out

\* AsyncCursor.__anext__, lines 66-70: return next(self), StopIteration
\* becoming StopAsyncIteration; the body holds no await
ANext(cursor) ==
  LET out == CursorNext(cursor) IN
  IF out.ret.kind = "StopIteration"
    THEN [out EXCEPT !.ret = [kind |-> "StopAsyncIteration"]]
    ELSE out

\* Session.__aenter__, line 157, Session.__aexit__, line 160, and
\* start_session, line 173: await asyncio.sleep(0), as many times as written
Sleeps(step) == IF step \in { "starting", "entering", "exiting" } THEN 1 ELSE 0

\* a variant of AExit that undoes the block's writes when the block raised
AExitRollback(databases, raised) ==
  IF raised THEN [n \in DOMAIN databases |-> [databases[n] EXCEPT !.colls = EmptyMap]]
  ELSE databases

\* Session.__aexit__(exc_type, exc, tb): what it does to the client's
\* databases, whether the block raised or not
AExit(databases, raised) == databases

\* a variant of AsyncMockMongoClient that takes over the databases of the
\* client before it
AsyncMockMongoClientShared(databases) == databases

\* AsyncMockMongoClient(), lines 179 and 188: a client of its own, without
\* databases, whatever the client before it held
AsyncMockMongoClient(databases) == EmptyMap

\* a variant of GetCollection that builds a collection on every lookup
GetCollectionNew(colls, name, newId) ==
  (name :> [type |-> "AsyncCollection", id |-> newId, docs |-> <<>>]) @@ colls

\* Database.get_collection: looked up in self._collections, created on a miss
GetCollection(colls, name, newId) ==
  IF name \in DOMAIN colls
    THEN colls
    ELSE colls @@ (name :> [type |-> "AsyncCollection", id |-> newId, docs |-> <<>>])

\* AsyncMockMongoClient.get_database: looked up in self._databases, created on
\* a miss
GetDatabase(databases, name, newId) ==
  IF name \in DOMAIN databases
    THEN databases
    ELSE databases
           @@ (name :> [type |-> "AsyncDatabase", id |-> newId, colls |-> EmptyMap])

\* os.path.join(basedir, file_name)
Path(basedir, file_name) == <<basedir.val, file_name>>

\* truth value of an option or ini value: None and "" are false
Truthy(x) == x.kind = "str" /\ x.val # ""

\* a variant of BaseDir that prefers the ini value
BaseDirIniFirst(option_dir, ini_dir) == IF Truthy(ini_dir) THEN ini_dir ELSE option_dir

\* load_fixtures, line 205: basedir = option_dir or ini_dir
BaseDir(option_dir, ini_dir) == IF Truthy(option_dir) THEN option_dir ELSE ini_dir

\* config.getoption("async_mongodb_fixture_dir"): the command-line value, None
\* when the option was not given (addoption, lines 36-38, sets no default)
GetOption(e) == e.option

\* config.getini("async_mongodb_fixture_dir"): the ini file's value, else the
\* default addini registered, os.getcwd() evaluated in pytest_addoption
\* (line 33)
GetIni(e) == IF e.inifile.kind = "str" THEN e.inifile ELSE Str(e.default)

\* a variant of CacheStore that adds the documents to the list already cached
CacheStoreExtend(c, path, docs) ==
  (path :> ((IF path \in DOMAIN c THEN c[path] ELSE <<>>) \o docs)) @@ c

\* load_fixture, line 228: _cache[path] = docs
CacheStore(c, path, docs) == (path :> docs) @@ c

\* a variant of CacheHit that never finds the path
CacheHitNever(c, path) == FALSE

\* load_fixture, lines 224-226: docs = _cache[path] succeeds, or raises
\* KeyError
CacheHit(c, path) == path \in DOMAIN c

\* load_fixture, lines 218-223: the decoder for a format, "none" for any other
LoaderFor(file_format) ==
  IF file_format = <<"j", "s", "o", "n">> THEN "json"
  ELSE IF file_format = <<"y", "a", "m", "l">> THEN "yaml"
  ELSE "none"

\* a variant of NextStep that loads before it cleans
NextStepLoadFirst(step) ==
  IF step = "client" THEN "load"
  ELSE IF step = "load" THEN "clean"
  ELSE "return"

\* the statements of the fixture body in order (lines 179-183, 188-192):
\* client and database, clean_database, load_fixtures, return
NextStep(step) ==
  IF step = "client" THEN "clean"
  ELSE IF step = "clean" THEN "load"
  ELSE "return"

----------------------------------------------------------------------------
(* State *)

VARIABLES
  listing,    \* the entries of the directory DirCwd, as os.listdir returns them
  disk,       \* file name in DirCwd -> the document list its text decodes to
  env,        \* [option, inifile, default, cwd]: the command-line value, the
              \* ini file's value, the default of the ini setting, the
              \* working directory
  basedir,    \* load_fixtures: basedir, NoValue outside load_fixtures
  race,       \* concurrent load_fixture executions, see the section on them
  fixtures,   \* config.getini("async_mongodb_fixtures")
  cache,      \* _cache: path -> parsed document list
  dbs,        \* the client's _databases: name -> [id, colls: name -> [id, docs]]
  nextId,     \* instances created by the current client
  nextOid,    \* ObjectIds generated in the process
  pc,         \* where the current test is
  todo,       \* load_fixtures: directory entries still to visit
  cur,        \* load_fixture: [collection, path, i], i the next document
  job,        \* the call handed to the executor, NoJob when there is none
  ret,        \* what the test body's last operation returned or raised
  tests,      \* tests started
  ops,        \* operations the current test body has performed
  done,       \* steps of the current setup that have completed, in order
  reads,      \* path -> times the file was opened and decoded
  parsed,     \* path -> what the first decoding returned
  hist,       \* the test body's last call: what was asked, on which state
  sess,       \* the test's session: "none", "starting", "started", "entering",
              \* "in", "exiting", "closed"
  yields      \* times the current session step gave control to the event loop

vars == <<listing, disk, env, basedir, race, fixtures, cache, dbs, nextId, nextOid,
          pc, todo, cur, job, ret, tests, ops, done, reads, parsed, hist, sess,
          yields>>

config == <<listing, fixtures, env, race>>
NoRace == [on |-> FALSE]
PlainEnv == [option |-> NoValue, inifile |-> NoValue, default |-> DirCwd, cwd |-> DirCwd]

\* os.listdir(dir): the entries of the other directories are fixed
ListDir(dir) ==
  IF dir = DirCwd THEN listing
  ELSE IF dir = DirOpt THEN << <<"b", ".", "j", "s", "o", "n">> >>
  ELSE IF dir = DirIni THEN << <<"a", ".", "y", "a", "m", "l">> >>
  ELSE <<>>

\* loader(fp) for the file at path: the document list its text decodes to
ReadFile(path) ==
  IF path[1] = DirCwd THEN disk[path[2]]
  ELSE IF path[1] = DirOpt THEN <<D0>>
  ELSE <<D1>>
ghost == <<reads, parsed>>
session == <<sess, yields>>

NoCur == [collection |-> <<>>, path |-> <<>>, i |-> 0]
NoRet == [kind |-> "nothing"]
NoHist == [op |-> "none"]

TheDb == "pytest"

Init ==
  /\ listing \in Listings
  /\ disk \in [Range(listing) -> Contents]
  /\ \A f \in Range(listing) : ~IsFixtureFile(f) => disk[f] = <<>>
  /\ fixtures \in Selections
  /\ env = PlainEnv
  /\ basedir = NoValue
  /\ race = NoRace
  /\ cache = EmptyMap
  /\ dbs = EmptyMap
  /\ nextId = 1
  /\ nextOid = 1
  /\ pc = "idle"
  /\ todo = <<>>
  /\ cur = NoCur
  /\ job = NoJob
  /\ ret = NoRet
  /\ tests = 0
  /\ ops = 0
  /\ done = <<>>
  /\ reads = EmptyMap
  /\ parsed = EmptyMap
  /\ hist = NoHist
  /\ sess = "none"
  /\ yields = 0

----------------------------------------------------------------------------
(* The executor thread *)

\* what the partial does and returns when it runs on the state st
Call(func, args, st) ==
  IF func.type = "AsyncDatabase"
    THEN \* collection_names(include_system_collections=False)
         [st EXCEPT !.ret = [kind |-> "names",
                             names |-> CollectionNames(st.dbs[func.db].colls)]]
    ELSE
      LET docs == st.dbs[func.db].colls[func.coll].docs
          put(out) == [st.dbs EXCEPT ![func.db].colls[func.coll].docs = out.docs]
      IN
      IF func.name = "insert_one"
        THEN LET out == InsertOne(docs, args.data, st.nextOid) IN
             [ret |-> out.ret,
              dbs |-> put(out),
              cache |-> IF args.ref = <<>> THEN st.cache
                        ELSE [st.cache EXCEPT ![args.ref[1]][args.ref[2]] = out.data],
              nextOid |-> IF "_id" \in DOMAIN args.data THEN st.nextOid
                          ELSE st.nextOid + 1]
      ELSE IF func.name = "find"
        THEN [st EXCEPT !.ret = Find(docs, args.filter).ret]
      ELSE IF func.name = "count_documents"
        THEN LET out == CountDocuments(docs, args.spec) IN
             [st EXCEPT !.ret = out.ret, !.dbs = put(out)]
      ELSE   \* delete_many
             LET out == DeleteMany(docs, args.spec) IN
             [st EXCEPT !.ret = out.ret, !.dbs = put(out)]

\* the state an executor thread finds
Current == [ret |-> NoRet, dbs |-> dbs, cache |-> cache, nextOid |-> nextOid]

\* loop.run_in_executor: a thread of the pool takes the partial from the
\* pool's queue and calls it
ExecutorStart ==
  /\ job.state = "queued"
  /\ job' = [job EXCEPT !.state = "running", !.calls = @ + 1]
  /\ UNCHANGED <<config, disk, cache, dbs, nextId, nextOid, pc, todo, basedir, cur, ret,
                 tests, ops, done, ghost, hist, session>>

\* the call returns or raises in its thread, which completes the future with
\* what it returned or raised
Executor ==
  /\ job.state = "running"
  /\ LET out == Call(job.func, job.args, Current) IN
     /\ dbs' = out.dbs
     /\ cache' = out.cache
     /\ nextOid' = out.nextOid
     /\ job' = [job EXCEPT !.state = "done", !.result = out.ret, !.pre = Current]
  /\ UNCHANGED <<config, disk, nextId, pc, todo, basedir, cur, ret, tests, ops,
                 done, ghost, hist, session>>

\* a variant of IsError for which no call raises
IsErrorNever(r) == FALSE

\* the await of a call raises what the call raised: the engine's
\* DuplicateKeyError, a TypeError
IsError(r) == r.kind \in { "DuplicateKeyError", "TypeError" }

\* a variant of Document that iterates from the end of the list
DocumentReversed(docs, i) == docs[Len(docs) + 1 - i]

\* load_fixture, line 230: for document in docs, the document of the i-th
\* iteration
Document(docs, i) == docs[i]

----------------------------------------------------------------------------
(* The per-test setup: async_mongodb / async_mongodb_client *)

\* lines 179-180 (188-189): client = AsyncMockMongoClient(); db = client["pytest"]
Setup ==
  /\ pc = "idle"
  /\ tests < MaxTests
  /\ tests' = tests + 1
  /\ dbs' = GetDatabase(AsyncMockMongoClient(dbs), TheDb, 1)
  /\ nextId' = 2
  /\ ops' = 0
  /\ done' = <<>>
  /\ pc' = NextStep("client")
  /\ UNCHANGED <<config, disk, cache, nextOid, todo, basedir, cur, job, ret, ghost,
                 hist, session>>

\* clean_database, line 196: await db.collection_names(...), an adapted call
CleanCall ==
  /\ pc = "clean"
  /\ IsWrapped("AsyncDatabase", "collection_names")
  /\ job' = Wrapped([type |-> "AsyncDatabase", db |-> TheDb, coll |-> <<>>,
                     name |-> "collection_names"],
                    [include_system_collections |-> FALSE])
  /\ pc' = "clean_wait"
  /\ UNCHANGED <<config, disk, cache, dbs, nextId, nextOid, todo, basedir, cur,
                 ret, tests, ops, done, ghost, hist, session>>

\* clean_database, lines 197-198: the task resumes with the names and drops
\* each of them (drop_collection is not adapted: no suspension in the loop)
CleanResume ==
  /\ pc = "clean_wait"
  /\ job.state = "done"
  /\ dbs' = [dbs EXCEPT ![TheDb].colls = DropAll(@, job.result.names)]
  /\ job' = NoJob
  /\ done' = Append(done, "clean")
  /\ pc' = NextStep("clean")
  /\ UNCHANGED <<config, disk, cache, nextId, nextOid, todo, basedir, cur, ret,
                 tests, ops, ghost, hist, session>>

\* load_fixtures, lines 202-207: the configuration is read and the directory
\* listed
LoadFixtures ==
  /\ pc = "load"
  /\ LET option_dir == GetOption(env)
         ini_dir == GetIni(env)
     IN basedir' = BaseDir(option_dir, ini_dir)
  /\ todo' = ListDir(basedir'.val)
  /\ pc' = "scan"
  /\ UNCHANGED <<config, disk, cache, dbs, nextId, nextOid, cur, job,
                 ret, tests, ops, done, ghost, hist, session>>

\* load_fixtures, lines 207-214, and load_fixture, lines 218-228: the next
\* entry is skipped, or its documents are taken from the cache, the file being
\* opened and decoded on a miss
ScanFile ==
  /\ pc = "scan"
  /\ todo # <<>>
  /\ todo' = Tail(todo)
  /\ LET file_name == Head(todo)
         collection == SplitExt(file_name)[1]
         file_format == StripDots(SplitExt(file_name)[2])
         path == Path(basedir, file_name)
     IN
     IF Selected(fixtures, collection) /\ Supported(file_format)
          /\ LoaderFor(file_format) # "none"
       THEN /\ IF CacheHit(cache, path)
                 THEN UNCHANGED <<cache, reads, parsed>>
                 ELSE /\ cache' = CacheStore(cache, path, ReadFile(path))
                      /\ reads' = IF path \in DOMAIN reads
                                    THEN [reads EXCEPT ![path] = @ + 1]
                                    ELSE reads @@ (path :> 1)
                      /\ parsed' = IF path \in DOMAIN parsed THEN parsed
                                   ELSE parsed @@ (path :> ReadFile(path))
            /\ cur' = [collection |-> collection, path |-> path, i |-> 1]
            /\ pc' = "docs"
       ELSE /\ UNCHANGED <<cache, reads, parsed, cur>>
            /\ pc' = "scan"
  /\ UNCHANGED <<config, disk, basedir, dbs, nextId, nextOid, job, ret, tests,
                 ops, done, hist, session>>

\* load_fixture, lines 230-231: db[collection] looks the collection up (and
\* creates it), insert_one is an adapted call; after the last document
\* load_fixture returns
InsertCall ==
  /\ pc = "docs"
  /\ IF cur.i <= Len(cache[cur.path])
       THEN /\ IsWrapped("AsyncCollection", "insert_one")
            /\ dbs' = [dbs EXCEPT
                         ![TheDb].colls = GetCollection(@, cur.collection, nextId)]
            /\ nextId' = IF cur.collection \in DOMAIN dbs[TheDb].colls
                           THEN nextId ELSE nextId + 1
            /\ job' = Wrapped([type |-> "AsyncCollection", db |-> TheDb,
                               coll |-> cur.collection, name |-> "insert_one"],
                              [data |-> Document(cache[cur.path], cur.i),
                               ref |-> <<cur.path, cur.i>>])
            /\ pc' = "insert"
            /\ UNCHANGED cur
       ELSE /\ cur' = NoCur
            /\ pc' = "scan"
            /\ UNCHANGED <<dbs, nextId, job>>
  /\ UNCHANGED <<config, disk, cache, nextOid, todo, basedir, ret, tests, ops,
                 done, ghost, hist, session>>

\* load_fixture, line 231: the task resumes; an error raised by insert_one
\* leaves load_fixture, load_fixtures and the fixture
InsertResume ==
  /\ pc = "insert"
  /\ job.state = "done"
  /\ job' = NoJob
  /\ IF IsError(job.result)
       THEN /\ pc' = "failed"
            /\ ret' = job.result
            /\ UNCHANGED cur
       ELSE /\ pc' = "docs"
            /\ cur' = [cur EXCEPT !.i = @ + 1]
            /\ UNCHANGED ret
  /\ UNCHANGED <<config, disk, cache, dbs, nextId, nextOid, todo, basedir, tests,
                 ops, done, ghost, hist, session>>

\* load_fixtures: the listing is exhausted
LoadDone ==
  /\ pc = "scan"
  /\ todo = <<>>
  /\ done' = Append(done, "load")
  /\ pc' = NextStep("load")
  /\ UNCHANGED <<config, disk, cache, dbs, nextId, nextOid, todo, basedir, cur,
                 job, ret, tests, ops, ghost, hist, session>>

\* line 183: return db, line 192: return client; the two fixtures differ in
\* nothing else
Return(k) ==
  /\ pc = "return"
  /\ ret' = [kind |-> "handle", value |-> k]
  /\ pc' = "test"
  /\ UNCHANGED <<config, disk, cache, dbs, nextId, nextOid, todo, basedir, cur, job,
                 tests, ops, done, ghost, hist, session>>

\* the test function ends, or the runner reports the failed setup or the
\* cancelled test; a call still with a thread of the executor is waited for
EndTest ==
  /\ pc \in { "test", "failed", "cancelled" }
  /\ job.state \notin { "queued", "running" }
  /\ job' = NoJob
  /\ pc' = "idle"
  /\ ret' = NoRet
  /\ hist' = NoHist
  /\ ops' = 0
  /\ todo' = <<>>
  /\ basedir' = NoValue
  /\ cur' = NoCur
  /\ sess' = "none"
  /\ yields' = 0
  /\ UNCHANGED <<config, disk, cache, dbs, nextId, nextOid, tests, done, ghost>>

----------------------------------------------------------------------------
(* The test body: what a test does with the handle it was given *)

Filters ==
  { FilterNone, FilterMap(EmptyMap), FilterMap([_id |-> Key(2)]),
    FilterScalar(Key(2)), FilterScalar(Key(3)) }

\* a test body works inside a session from its start, or without one
CanCall == pc = "test" /\ ops < MaxOps /\ sess \in { "none", "in" }

\* db.get_collection(name), db[name]
TestGetCollection(name) ==
  /\ CanCall
  /\ ops' = ops + 1
  /\ dbs' = [dbs EXCEPT ![TheDb].colls = GetCollection(@, name, nextId)]
  /\ nextId' = IF name \in DOMAIN dbs[TheDb].colls THEN nextId ELSE nextId + 1
  /\ ret' = [kind |-> "instance", type |-> dbs'[TheDb].colls[name].type,
             id |-> dbs'[TheDb].colls[name].id]
  /\ hist' = [op |-> "get_collection", name |-> name, pre |-> dbs, fresh |-> nextId]
  /\ UNCHANGED <<config, disk, cache, nextOid, pc, todo, basedir, cur, job, tests,
                 done, ghost, session>>

\* client.get_database(name), client[name]
TestGetDatabase(name) ==
  /\ CanCall
  /\ ops' = ops + 1
  /\ dbs' = GetDatabase(dbs, name, nextId)
  /\ nextId' = IF name \in DOMAIN dbs THEN nextId ELSE nextId + 1
  /\ ret' = [kind |-> "instance", type |-> dbs'[name].type, id |-> dbs'[name].id]
  /\ hist' = [op |-> "get_database", name |-> name, pre |-> dbs, fresh |-> nextId]
  /\ UNCHANGED <<config, disk, cache, nextOid, pc, todo, basedir, cur, job, tests,
                 done, ghost, session>>

\* collection.find(filter): the attribute comes through __getattribute__;
\* find is not in ASYNC_METHODS, so it is the method itself and runs in the
\* caller
TestFind(c, filter) ==
  /\ CanCall
  /\ c \in DOMAIN dbs[TheDb].colls
  /\ ops' = ops + 1
  /\ IF IsWrapped("AsyncCollection", "find")
       THEN /\ job' = Wrapped([type |-> "AsyncCollection", db |-> TheDb, coll |-> c,
                               name |-> "find"],
                              [filter |-> filter])
            /\ hist' = [op |-> "call", name |-> "find", coll |-> c,
                        args |-> [filter |-> filter]]
            /\ ret' = NoRet
            /\ pc' = "await"
       ELSE LET found == Find(dbs[TheDb].colls[c].docs, filter) IN
            /\ ret' = found.ret
            /\ hist' = [op |-> "find", coll |-> c, filter |-> filter, pre |-> dbs,
                        cursor |-> found.cursor]
            /\ UNCHANGED <<pc, job>>
  /\ UNCHANGED <<config, disk, cache, dbs, nextId, nextOid, todo, basedir, cur,
                 tests, done, ghost, session>>

\* await collection.find_one(filter): the call returns a coroutine, whose
\* body runs in the caller when it is awaited and holds no suspension point
TestFindOne(c, filter) ==
  /\ CanCall
  /\ c \in DOMAIN dbs[TheDb].colls
  /\ ops' = ops + 1
  /\ ret' = FindOne(dbs[TheDb].colls[c].docs, filter)
  /\ hist' = [op |-> "find_one", coll |-> c, filter |-> filter, pre |-> dbs,
              coroutine |-> IsCoroutineFunction("AsyncCollection", "find_one")]
  /\ UNCHANGED <<config, disk, cache, dbs, nextId, nextOid, pc, todo, basedir, cur,
                 job, tests, done, ghost, session>>

\* one step of "async for document in cursor" on the cursor find has just
\* returned: __aiter__ before the first step, then __anext__
TestANext ==
  /\ pc = "test"
  /\ \/ hist.op = "find" /\ ret.kind = "cursor"
     \/ hist.op = "anext" /\ ret.kind = "doc"
  /\ LET first == hist.op = "find"
         cursor == IF first THEN AIter(ret) ELSE hist.cursor
         out == ANext(cursor)
     IN
     /\ ret' = out.ret
     /\ hist' = [op |-> "anext", coll |-> hist.coll, pre |-> hist.pre,
                 start |-> IF first THEN ret ELSE hist.start,
                 cursor |-> out.cursor,
                 steps |-> IF first THEN 1 ELSE hist.steps + 1,
                 got |-> (IF first THEN <<>> ELSE hist.got)
                           \o (IF out.ret.kind = "doc" THEN <<out.ret.doc>> ELSE <<>>)]
  /\ UNCHANGED <<config, disk, cache, dbs, nextId, nextOid, pc, todo, basedir, cur,
                 job, tests, ops, done, ghost, session>>

\* the adapted calls a test body makes, with their arguments
AdaptedCalls ==
  { <<"insert_one", [data |-> d, ref |-> <<>>]>> : d \in { D1, D0 } }
    \cup { <<"count_documents", [spec |-> EmptyMap]>>,
           <<"delete_many", [spec |-> [_id |-> Key(1)]]>> }

\* await collection.<name>(args): the attribute comes through
\* __getattribute__; for a name in ASYNC_METHODS it is the wrapped method,
\* whose call hands the work to the executor and makes the task wait; any
\* other method would run in the caller and return its result
TestAwait(c, call) ==
  /\ CanCall
  /\ c \in DOMAIN dbs[TheDb].colls
  /\ call[1] = "insert_one" /\ "_id" \notin DOMAIN call[2].data => nextOid <= MaxOid
  /\ ops' = ops + 1
  /\ LET func == [type |-> "AsyncCollection", db |-> TheDb, coll |-> c,
                  name |-> call[1]]
     IN
     IF IsWrapped("AsyncCollection", call[1])
       THEN /\ job' = Wrapped(func, call[2])
            /\ hist' = [op |-> "call", name |-> call[1], coll |-> c, args |-> call[2]]
            /\ ret' = NoRet
            /\ pc' = "await"
            /\ UNCHANGED <<cache, dbs, nextOid>>
       ELSE LET out == Call(func, call[2], Current) IN
            /\ dbs' = out.dbs
            /\ cache' = out.cache
            /\ nextOid' = out.nextOid
            /\ ret' = out.ret
            /\ hist' = [op |-> "direct", name |-> call[1], coll |-> c,
                        args |-> call[2]]
            /\ UNCHANGED <<pc, job>>
  /\ UNCHANGED <<config, disk, nextId, todo, basedir, cur, tests, done, ghost,
                 session>>

\* the future completes: the awaiting task gets what the thread returned or
\* raised
TestResume ==
  /\ pc = "await"
  /\ job.state = "done"
  /\ ret' = Awaited(job.result)
  /\ hist' = [op |-> "await", name |-> hist.name, coll |-> hist.coll,
              args |-> hist.args, pre |-> job.pre, calls |-> job.calls]
  /\ job' = NoJob
  /\ pc' = "test"
  /\ UNCHANGED <<config, disk, cache, dbs, nextId, nextOid, todo, basedir, cur,
                 tests, ops, done, ghost, session>>

\* await client.start_session(), async with session: (__aenter__), and the end
\* of the block (__aexit__), raised telling whether the block raised: each
\* reaches its await asyncio.sleep(0)
SessionStep(raised) ==
  /\ pc = "test"
  /\ sess \in { "none", "started", "in" }
  /\ sess = "none" => ops = 0
  /\ sess' = IF sess = "none" THEN "starting"
             ELSE IF sess = "started" THEN "entering" ELSE "exiting"
  /\ sess = "in" => dbs' = AExit(dbs, raised)
  /\ sess # "in" => ~raised /\ UNCHANGED dbs
  /\ hist' = [op |-> "session", step |-> sess', raised |-> raised, pre |-> dbs,
              cache |-> cache]
  /\ ret' = NoRet
  /\ yields' = 0
  /\ pc' = "sleep"
  /\ UNCHANGED <<config, disk, cache, nextId, nextOid, todo, basedir, cur, job,
                 tests, ops, done, ghost>>

\* the event loop runs the task again after asyncio.sleep(0)
Wake ==
  /\ pc = "sleep"
  /\ yields' = yields + 1
  /\ IF yields' >= Sleeps(sess)
       THEN /\ pc' = "test"
            /\ sess' = IF sess = "starting" THEN "started"
                       ELSE IF sess = "entering" THEN "in" ELSE "closed"
            /\ ret' = IF sess = "exiting" /\ hist.raised
                        THEN [kind |-> "raised"]
                        ELSE [kind |-> "session", step |-> sess']
       ELSE UNCHANGED <<pc, sess, ret>>
  /\ UNCHANGED <<config, disk, cache, dbs, nextId, nextOid, todo, basedir, cur, job,
                 tests, ops, done, ghost, hist>>

Next ==
  \/ \E n \in CollNames : TestGetCollection(n)
  \/ \E n \in DbNames : TestGetDatabase(n)
  \/ \E c \in CollNames, f \in Filters : TestFind(c, f)
  \/ \E c \in CollNames, f \in Filters : TestFindOne(c, f)
  \/ TestANext
  \/ \E c \in CollNames, call \in AdaptedCalls : TestAwait(c, call)
  \/ TestResume
  \/ \E raised \in BOOLEAN : SessionStep(raised)
  \/ Wake
  \/ Setup
  \/ CleanCall
  \/ CleanResume
  \/ LoadFixtures
  \/ ScanFile
  \/ InsertCall
  \/ InsertResume
  \/ LoadDone
  \/ \E k \in { "db", "client" } : Return(k)
  \/ ExecutorStart
  \/ Executor
  \/ EndTest

Spec == Init /\ [][Next]_vars

----------------------------------------------------------------------------
(* The same process with a fixture file rewritten while it runs *)

\* between two tests a file the process has already decoded gets another
\* content; one rewrite per process
ChangeFile(f, content) ==
  /\ pc = "idle"
  /\ f \in Range(listing)
  /\ Path(Str(DirCwd), f) \in DOMAIN parsed
  /\ \A g \in Range(listing) :
       Path(Str(DirCwd), g) \in DOMAIN parsed => disk[g] = parsed[Path(Str(DirCwd), g)]
  /\ content # disk[f]
  /\ disk' = [disk EXCEPT ![f] = content]
  /\ UNCHANGED <<config, cache, dbs, nextId, nextOid, pc, todo, basedir, cur, job, ret,
                 tests,
                 ops, done, ghost, hist, session>>

NextDisk ==
  \/ Next
  \/ \E f \in FileNames, content \in Contents : ChangeFile(f, content)

SpecDisk == Init /\ [][NextDisk]_vars

----------------------------------------------------------------------------
(* The same process started with a command-line directory, an ini directory,
   both or neither, and changing its working directory while it runs *)

\* --async_mongodb-fixture-dir not given, given empty, given as DirOpt
OptionValues == { NoValue, Str(""), Str(DirOpt) }
\* async_mongodb_fixture_dir absent from the ini file, or DirIni
IniValues == { NoValue, Str(DirIni) }

InitDir ==
  /\ listing \in { << <<"a", ".", "j", "s", "o", "n">> >>,
                    << <<"a", ".", "j", "s", "o", "n">>, <<"b", ".", "t", "x", "t">> >> }
  /\ disk = [f \in Range(listing) |-> IF IsFixtureFile(f) THEN <<D1, D2>> ELSE <<>>]
  /\ fixtures = <<NameA, NameB>>
  /\ env \in { [option |-> o, inifile |-> i, default |-> DirCwd, cwd |-> DirCwd] :
                  o \in OptionValues, i \in IniValues }
  /\ basedir = NoValue
  /\ race = NoRace
  /\ cache = EmptyMap
  /\ dbs = EmptyMap
  /\ nextId = 1
  /\ nextOid = 1
  /\ pc = "idle"
  /\ todo = <<>>
  /\ cur = NoCur
  /\ job = NoJob
  /\ ret = NoRet
  /\ tests = 0
  /\ ops = 0
  /\ done = <<>>
  /\ reads = EmptyMap
  /\ parsed = EmptyMap
  /\ hist = NoHist
  /\ sess = "none"
  /\ yields = 0

\* os.chdir(dir) between two tests; the default of the ini setting was
\* computed when the options were registered (line 33) and stays
ChDir(dir) ==
  /\ pc = "idle"
  /\ env.cwd = env.default
  /\ dir # env.cwd
  /\ env' = [env EXCEPT !.cwd = dir]
  /\ UNCHANGED <<listing, fixtures, race, disk, cache, dbs, nextId, nextOid, pc, todo,
                 basedir, cur, job, ret, tests, ops, done, ghost, hist, session>>

NextDir ==
  \/ Next
  \/ \E dir \in Dirs : ChDir(dir)

SpecDir == InitDir /\ [][NextDir]_vars

----------------------------------------------------------------------------
(* load_fixture for one path, executed by several loaders at the same time,
   each for a database of its own.  The steps are the statements of lines
   224-231; a list loader(fp) returns is an object of the heap, which
   _cache[path] and the loaders' docs refer to. *)

Loaders == 1..MaxLoaders
RacePath == Path(Str(DirCwd), <<"a", ".", "j", "s", "o", "n">>)

InitRace ==
  /\ listing = << <<"a", ".", "j", "s", "o", "n">> >>
  /\ disk \in [Range(listing) -> Contents]
  /\ fixtures = <<NameA>>
  /\ env = PlainEnv
  /\ basedir = NoValue
  /\ race = [on |-> TRUE, heap |-> <<>>, obj |-> 0, stores |-> <<>>,
             ld |-> [l \in Loaders |-> [pc |-> "start", docs |-> 0, i |-> 1,
                                        db |-> <<>>, ret |-> NoRet]]]
  /\ cache = EmptyMap
  /\ dbs = EmptyMap
  /\ nextId = 1
  /\ nextOid = 1
  /\ pc = "idle"
  /\ todo = <<>>
  /\ cur = NoCur
  /\ job = NoJob
  /\ ret = NoRet
  /\ tests = 0
  /\ ops = 0
  /\ done = <<>>
  /\ reads = EmptyMap
  /\ parsed = EmptyMap
  /\ hist = NoHist
  /\ sess = "none"
  /\ yields = 0

RaceFrame ==
  UNCHANGED <<listing, fixtures, env, disk, basedir, dbs, nextId, pc, todo, cur, job,
              ret, tests, ops, done, hist, session>>

\* lines 224-226: docs = _cache[path], or KeyError
RaceLookup(l) ==
  /\ race.on
  /\ race.ld[l].pc = "start"
  /\ race' = IF CacheHit(cache, RacePath)
               THEN [race EXCEPT !.ld[l].pc = "docs", !.ld[l].docs = race.obj]
               ELSE [race EXCEPT !.ld[l].pc = "open"]
  /\ UNCHANGED <<cache, nextOid, ghost>>
  /\ RaceFrame

\* lines 227-228: the file is opened and loader(fp) returns a new list
RaceParse(l) ==
  /\ race.on
  /\ race.ld[l].pc = "open"
  /\ race' = [race EXCEPT !.heap = Append(@, ReadFile(RacePath)),
                          !.ld[l].docs = Len(race.heap) + 1,
                          !.ld[l].pc = "store"]
  /\ reads' = IF RacePath \in DOMAIN reads THEN [reads EXCEPT ![RacePath] = @ + 1]
              ELSE reads @@ (RacePath :> 1)
  /\ parsed' = IF RacePath \in DOMAIN parsed THEN parsed
               ELSE parsed @@ (RacePath :> ReadFile(RacePath))
  /\ UNCHANGED <<cache, nextOid>>
  /\ RaceFrame

\* line 228: _cache[path] = docs, the list just decoded
RaceStore(l) ==
  /\ race.on
  /\ race.ld[l].pc = "store"
  /\ cache' = CacheStore(cache, RacePath, race.heap[race.ld[l].docs])
  /\ race' = [race EXCEPT !.obj = race.ld[l].docs,
                          !.stores = Append(@, cache'[RacePath]),
                          !.ld[l].pc = "docs"]
  /\ UNCHANGED <<nextOid, ghost>>
  /\ RaceFrame

\* lines 230-231: await db[collection].insert_one(document) for the next
\* document of docs, which insert_one may give an _id; an error leaves
\* load_fixture; after the last document load_fixture returns
RaceInsert(l) ==
  /\ race.on
  /\ race.ld[l].pc = "docs"
  /\ LET me == race.ld[l]
         docs == race.heap[me.docs]
     IN
     IF me.i <= Len(docs)
       THEN LET out == InsertOne(me.db, docs[me.i], nextOid)
                heap == [race.heap EXCEPT ![me.docs][me.i] = out.data]
            IN
            /\ race' = [race EXCEPT
                          !.heap = heap,
                          !.ld[l].db = out.docs,
                          !.ld[l].ret = IF IsError(out.ret) THEN out.ret ELSE NoRet,
                          !.ld[l].pc = IF IsError(out.ret) THEN "failed" ELSE "docs",
                          !.ld[l].i = IF IsError(out.ret) THEN @ ELSE @ + 1]
            /\ cache' = IF race.obj = me.docs
                          THEN [cache EXCEPT ![RacePath] = heap[me.docs]]
                          ELSE cache
            /\ nextOid' = IF "_id" \in DOMAIN docs[me.i] THEN nextOid ELSE nextOid + 1
       ELSE /\ race' = [race EXCEPT !.ld[l].pc = "done"]
            /\ UNCHANGED <<cache, nextOid>>
  /\ UNCHANGED ghost
  /\ RaceFrame

NextRace ==
  \/ \E l \in Loaders : RaceLookup(l)
  \/ \E l \in Loaders : RaceParse(l)
  \/ \E l \in Loaders : RaceStore(l)
  \/ \E l \in Loaders : RaceInsert(l)

SpecRace == InitRace /\ [][NextRace]_vars

----------------------------------------------------------------------------
(* The same process with a test whose task is cancelled while it awaits an
   adapted call *)

InitCancel ==
  /\ listing = << <<"a", ".", "j", "s", "o", "n">> >>
  /\ disk = [f \in Range(listing) |-> <<D0>>]
  /\ fixtures = <<NameA>>
  /\ env = PlainEnv
  /\ basedir = NoValue
  /\ race = NoRace
  /\ cache = EmptyMap
  /\ dbs = EmptyMap
  /\ nextId = 1
  /\ nextOid = 1
  /\ pc = "idle"
  /\ todo = <<>>
  /\ cur = NoCur
  /\ job = NoJob
  /\ ret = NoRet
  /\ tests = 0
  /\ ops = 0
  /\ done = <<>>
  /\ reads = EmptyMap
  /\ parsed = EmptyMap
  /\ hist = NoHist
  /\ sess = "none"
  /\ yields = 0

\* a variant of CancelFuture that also stops a call that is running
CancelFutureAbort(state) ==
  IF state \in { "queued", "running" } THEN "cancelled" ELSE state

\* wrapper, line 47: the future of loop.run_in_executor when the task awaiting
\* it is cancelled: cancel() of the executor's future drops a call that still
\* waits in the pool's queue and leaves a running one alone
CancelFuture(state) == IF state = "queued" THEN "cancelled" ELSE state

\* the task of the test is cancelled while it awaits an adapted call:
\* CancelledError is raised at the await of line 47 and leaves the test
Cancel ==
  /\ pc = "await"
  /\ job.state \in { "queued", "running" }
  /\ job' = [job EXCEPT !.state = CancelFuture(@)]
  /\ pc' = "cancelled"
  /\ ret' = [kind |-> "CancelledError"]
  /\ hist' = [op |-> "cancel", name |-> hist.name, coll |-> hist.coll,
              args |-> hist.args, state |-> job.state]
  /\ UNCHANGED <<config, disk, cache, dbs, nextId, nextOid, todo, basedir, cur,
                 tests, ops, done, ghost, session>>

NextCancel ==
  \/ Next
  \/ Cancel

\* a thread of the pool takes a queued call, and a call that runs returns
SpecCancel ==
  InitCancel /\ [][NextCancel]_vars /\ WF_vars(ExecutorStart) /\ WF_vars(Executor)

----------------------------------------------------------------------------
(* Properties *)

\* a directory entry the selection list and the formats ask to load
Loadable(f) == IsFixtureFile(f) /\ FixtureName(f) \in Range(fixtures)

\* the documents of a collection of the target database, none when the
\* collection does not exist
CollDocs(name) ==
  IF TheDb \in DOMAIN dbs /\ name \in DOMAIN dbs[TheDb].colls
    THEN dbs[TheDb].colls[name].docs
    ELSE <<>>

\* a stored document as the file lists it: without the _id the engine gave it
AsListed(doc) ==
  IF IsObjectId(doc._id) THEN [k \in DOMAIN doc \ { "_id" } |-> doc[k]] ELSE doc
AllAsListed(docs) == [i \in DOMAIN docs |-> AsListed(docs[i])]

\* the documents of the loadable files named name.json, name.yaml among the
\* entries s, the files in the order of s
RECURSIVE ListedFor(_, _)
ListedFor(name, s) ==
  IF s = <<>> THEN <<>>
  ELSE (IF Loadable(Head(s)) /\ FixtureName(Head(s)) = name
          THEN disk[Head(s)] ELSE <<>>)
         \o ListedFor(name, Tail(s))

\* the setup has just handed the handle over
SetupFinished == pc = "test" /\ ret.kind = "handle"

\* the setup is running, has failed or has just finished
InSetup ==
  pc \in { "clean", "clean_wait", "load", "scan", "docs", "insert", "return", "failed" }
    \/ SetupFinished

\* no other loadable entry of the directory has the base name of f
OnlyOfItsName(f) ==
  \A g \in Range(listing) : Loadable(g) /\ FixtureName(g) = FixtureName(f) => g = f

\* C1, as claimed: after the setup, for every json or yaml file of the
\* directory whose base name is selected, the collection named after it holds
\* exactly the documents the file lists, in file order
C1_PerFileExactly ==
  SetupFinished =>
    \A f \in Range(listing) :
      Loadable(f) => AllAsListed(CollDocs(FixtureName(f))) = disk[f]

\* C1, amended: after the setup, every collection holds exactly the documents
\* of the loadable files with its base name, each file's in file order, the
\* files in listing order; with one such file, exactly that file's documents
C1_PerNameExactly ==
  SetupFinished =>
    /\ \A f \in Range(listing) :
         Loadable(f) =>
           AllAsListed(CollDocs(FixtureName(f))) = ListedFor(FixtureName(f), listing)
    /\ \A f \in Range(listing) :
         Loadable(f) /\ OnlyOfItsName(f) =>
           AllAsListed(CollDocs(FixtureName(f))) = disk[f]
    /\ \A n \in DOMAIN dbs[TheDb].colls :
         \E f \in Range(listing) : Loadable(f) /\ FixtureName(f) = n

\* C1 witness: a setup has finished with the documents of one file, and one
\* with the documents of two files of the same base name, in their collection
C1_Witness ==
  /\ SetupFinished
  /\ \E f, g \in Range(listing) :
       /\ f # g /\ Loadable(f) /\ Loadable(g) /\ FixtureName(f) = FixtureName(g)
       /\ disk[f] # <<>> /\ disk[g] # <<>>
       /\ Len(CollDocs(FixtureName(f))) = Len(disk[f]) + Len(disk[g])

\* C2: in every setup the clean step has completed when the load step begins,
\* the load step begins on a database without collections, every fixture
\* insert is made after the clean step, and the handle is handed over only
\* after the load step has completed
C2_CleanThenLoad ==
  /\ pc \in { "load", "scan", "docs", "insert" } => done = <<"clean">>
  /\ pc = "load" => CollectionNames(dbs[TheDb].colls) = {}
  /\ pc = "clean" => done = <<>>
  /\ (job.state # "none" /\ job.func.name = "insert_one" /\ pc = "insert")
       => done = <<"clean">>
  /\ pc \in { "return", "test", "await", "sleep" } => done = <<"clean", "load">>
  /\ pc = "return" => todo = <<>> /\ cur = NoCur /\ job = NoJob

\* C2 witness: the clean step is over and a fixture document is being inserted
C2_Witness ==
  /\ pc = "insert" /\ job.state = "done" /\ done = <<"clean">>
  /\ CollDocs(cur.collection) # <<>>

\* C3: load_fixtures creates and fills collections only from files whose
\* extension is json or yaml and whose base name is selected, opens no other
\* file, raises nothing when it skips a file, and with an empty selection list
\* loads nothing
C3_OnlyLoadable ==
  InSetup =>
    /\ \A n \in DOMAIN dbs[TheDb].colls :
         /\ \E f \in Range(listing) : Loadable(f) /\ FixtureName(f) = n
         /\ \A i \in DOMAIN CollDocs(n) :
              \E f \in Range(listing) :
                /\ Loadable(f) /\ FixtureName(f) = n
                /\ AsListed(CollDocs(n)[i]) \in Range(disk[f])
    /\ \A p \in DOMAIN cache :
         \E f \in Range(listing) : Loadable(f) /\ Path(Str(DirCwd), f) = p
    /\ pc = "failed" =>
         cur # NoCur /\ Loadable(cur.path[2]) /\ ret.kind = "DuplicateKeyError"
    /\ fixtures = <<>> => dbs[TheDb].colls = EmptyMap /\ cache = EmptyMap

\* C3 witness: a setup has finished that skipped b.txt, whose base name is
\* selected, and loaded another file
C3_Witness ==
  /\ SetupFinished
  /\ \E f, g \in Range(listing) :
       /\ ~IsFixtureFile(f) /\ EndsWith(f, <<".", "t", "x", "t">>)
       /\ fixtures = <<NameA, NameB>> /\ NameB \notin DOMAIN dbs[TheDb].colls
       /\ Loadable(g) /\ disk[g] # <<>> /\ CollDocs(FixtureName(g)) # <<>>

\* a cached document is the decoded one, or the decoded one with the _id the
\* engine's insert_one gave it because it had none
AsDecoded(cached, decoded) ==
  \/ cached = decoded
  \/ /\ "_id" \notin DOMAIN decoded
     /\ "_id" \in DOMAIN cached
     /\ IsObjectId(cached._id)
     /\ cached = [_id |-> cached._id] @@ decoded

\* C4, as claimed: a path is opened and decoded once, its cache entry is never
\* removed, and the cached content stays identical to what was decoded,
\* whatever happens to the file
C4_CachedIdentical ==
  /\ DOMAIN cache = DOMAIN parsed
  /\ \A p \in DOMAIN cache : reads[p] = 1 /\ cache[p] = parsed[p]

\* C4, amended: a path is opened and decoded once, its cache entry is never
\* removed or replaced, and the cached list stays what was decoded, whatever
\* happens to the file, except that a document decoded without _id carries,
\* once inserted, the _id insert_one gave it
C4_CachedOnce ==
  /\ DOMAIN cache = DOMAIN parsed
  /\ DOMAIN reads = DOMAIN parsed
  /\ \A p \in DOMAIN cache :
       /\ reads[p] = 1
       /\ Len(cache[p]) = Len(parsed[p])
       /\ \A i \in DOMAIN cache[p] : AsDecoded(cache[p][i], parsed[p][i])

\* C4 witness: in the second test a file rewritten after it was decoded is
\* loaded again, from the cache
C4_Witness ==
  /\ tests = 2
  /\ pc = "insert"
  /\ job.state = "done"
  /\ disk[cur.path[2]] # parsed[cur.path]
  /\ reads[cur.path] = 1
  /\ CollDocs(cur.collection) # <<>>

\* the bound method a test body's adapted call names
Asked ==
  [type |-> "AsyncCollection", db |-> TheDb, coll |-> hist.coll, name |-> hist.name]

\* C5: an awaited adapted call returns what one call of the underlying method
\* with the same arguments returns, raises what it raises, leaves the store as
\* it leaves it, and invokes it exactly once
C5_AwaitIsOneCall ==
  /\ job.state = "queued" => job.calls = 0
  /\ job.state = "done" =>
       /\ job.calls = 1
       /\ dbs = Call(job.func, job.args, job.pre).dbs
  /\ (pc = "await" /\ job.state = "done") =>
       LET sync == Call(Asked, hist.args, job.pre) IN
       job.result = sync.ret /\ dbs = sync.dbs /\ nextOid = sync.nextOid
  /\ hist.op = "await" =>
       LET sync == Call(Asked, hist.args, hist.pre) IN
       /\ ret = sync.ret
       /\ dbs = sync.dbs
       /\ hist.calls = 1
       /\ job = NoJob

\* C5 witness: an awaited insert_one raised the engine's DuplicateKeyError,
\* and the collection is as before the call
C5_Witness ==
  /\ hist.op = "await"
  /\ hist.name = "insert_one"
  /\ ret.kind = "DuplicateKeyError"
  /\ CollDocs(hist.coll) = hist.pre.dbs[TheDb].colls[hist.coll].docs
  /\ CollDocs(hist.coll) # <<>>

\* the documents find or find_one looked at
Looked == hist.pre[TheDb].colls[hist.coll].docs

\* the first document with the given _id, None when there is none
FirstWithId(docs, id) ==
  IF \E i \in DOMAIN docs : docs[i]._id = id
    THEN [kind |-> "doc",
          doc |-> docs[CHOOSE i \in DOMAIN docs :
                         docs[i]._id = id /\ \A j \in 1..(i - 1) : docs[j]._id # id]]
    ELSE [kind |-> "None"]

\* the value a non-mapping filter stands for; None is a value too
PyNone == <<"None", 0>>
FilterValue(filter) == IF filter.kind = "scalar" THEN filter.val ELSE PyNone

\* C6, as claimed: find_one(x) with any non-mapping x is find_one({"_id": x}):
\* the first document whose _id is x, or None
C6_NonMappingIsId ==
  (hist.op = "find_one" /\ ~IsMapping(hist.filter)) =>
    /\ ret = FindOne(Looked, FilterMap([_id |-> FilterValue(hist.filter)]))
    /\ ret = FirstWithId(Looked, FilterValue(hist.filter))

\* C6, amended: find_one(x) with a non-mapping x other than None is
\* find_one({"_id": x}): the first document whose _id is x, or None;
\* find_one(None) is find_one({}): the first document of the collection, or
\* None
C6_ScalarIsId ==
  /\ (hist.op = "find_one" /\ hist.filter.kind = "scalar") =>
       /\ ret = FindOne(Looked, FilterMap([_id |-> hist.filter.val]))
       /\ ret = FirstWithId(Looked, hist.filter.val)
  /\ (hist.op = "find_one" /\ hist.filter.kind = "none") =>
       /\ ret = FindOne(Looked, FilterMap(EmptyMap))
       /\ ret = IF Looked = <<>> THEN [kind |-> "None"]
                ELSE [kind |-> "doc", doc |-> Looked[1]]
  /\ hist.op = "find_one" => dbs = hist.pre

\* C6 witness: find_one(x) returned the document whose _id is x, which is not
\* the first of its collection
C6_Witness ==
  /\ hist.op = "find_one"
  /\ hist.filter = FilterScalar(Key(2))
  /\ ret.kind = "doc"
  /\ ret.doc._id = Key(2)
  /\ Looked[1]._id # Key(2)

\* C7: find with a filter that is neither None nor a mapping raises TypeError
\* before a cursor is built, takes the value for nothing else, and changes
\* nothing
C7_FindTypeError ==
  (hist.op = "find" /\ hist.filter.kind = "scalar") =>
    /\ ret.kind = "TypeError"
    /\ ~hist.cursor
    /\ dbs = hist.pre
    /\ job = NoJob

\* C7 witness: find(x) raised TypeError although a document with _id x is in
\* the collection
C7_Witness ==
  /\ hist.op = "find"
  /\ hist.filter = FilterScalar(Key(2))
  /\ ret.kind = "TypeError"
  /\ \E i \in DOMAIN Looked : Looked[i]._id = Key(2)

\* C8: find(None) and find({}) return the same cursor: over all documents of
\* the collection, in their order
C8_NoneIsEmptyFilter ==
  (hist.op = "find" /\ hist.filter \in { FilterNone, FilterMap(EmptyMap) }) =>
    /\ ret.kind = "cursor"
    /\ ret.docs = Looked
    /\ ret.pos = 1
    /\ hist.cursor
    /\ Find(Looked, FilterNone) = Find(Looked, FilterMap(EmptyMap))

\* C8 witness: find(None) returned a cursor over a collection of two documents
C8_Witness ==
  /\ hist.op = "find"
  /\ hist.filter = FilterNone
  /\ ret.kind = "cursor"
  /\ Len(ret.docs) = 2

\* the ids of the instances the client holds
InstanceIds ==
  { dbs[n].id : n \in DOMAIN dbs }
    \cup UNION { { dbs[n].colls[c].id : c \in DOMAIN dbs[n].colls } : n \in DOMAIN dbs }
InstanceCount ==
  Cardinality({ <<n>> : n \in DOMAIN dbs })
    + Cardinality({ <<n, c>> \in (DOMAIN dbs) \X CollNames : c \in DOMAIN dbs[n].colls })

\* C9: the first lookup of a name creates an instance of the async subtype,
\* every later lookup of the name on the same parent returns that instance,
\* and no instance stands for two names
C9_Memoized ==
  /\ hist.op = "get_collection" =>
       LET before == hist.pre[TheDb].colls IN
       /\ ret.type = "AsyncCollection"
       /\ ret.id = dbs[TheDb].colls[hist.name].id
       /\ hist.name \in DOMAIN before =>
            ret.id = before[hist.name].id /\ dbs = hist.pre
       /\ hist.name \notin DOMAIN before =>
            /\ ret.id = hist.fresh
            /\ dbs[TheDb].colls[hist.name].docs = <<>>
            /\ \A c \in DOMAIN before : dbs[TheDb].colls[c] = before[c]
  /\ hist.op = "get_database" =>
       /\ ret.type = "AsyncDatabase"
       /\ ret.id = dbs[hist.name].id
       /\ hist.name \in DOMAIN hist.pre =>
            ret.id = hist.pre[hist.name].id /\ dbs = hist.pre
       /\ hist.name \notin DOMAIN hist.pre =>
            /\ ret.id = hist.fresh
            /\ dbs[hist.name].colls = EmptyMap
            /\ \A n \in DOMAIN hist.pre : dbs[n] = hist.pre[n]
  /\ Cardinality(InstanceIds) = InstanceCount
  /\ \A i \in InstanceIds : i < nextId

\* C9 witness: a test looked a collection up twice and got the instance its
\* first lookup created
C9_Witness ==
  /\ fixtures = <<>>
  /\ ops = 2
  /\ hist.op = "get_collection"
  /\ hist.name \in DOMAIN hist.pre[TheDb].colls
  /\ ret.id = hist.pre[TheDb].colls[hist.name].id

\* C10: start_session, entering and leaving the session block each give
\* control to the event loop once and do nothing else: databases, collections
\* and cache are as before the step, whether the block raised or not, and a
\* write awaited inside the block is applied when it is awaited
C10_SessionDoesNothing ==
  /\ hist.op = "session" =>
       /\ dbs = hist.pre
       /\ cache = hist.cache
       /\ job = NoJob
       /\ pc = "sleep" => yields = 0
       /\ pc = "test" => yields = 1
  /\ (sess = "in" /\ hist.op = "await") =>
       dbs = Call(Asked, hist.args, hist.pre).dbs

\* C10 witness: a block that wrote a document has raised, the session is
\* closed and the document is in its collection
C10_Witness ==
  /\ sess = "closed"
  /\ pc = "test"
  /\ ret.kind = "raised"
  /\ fixtures = <<>>
  /\ \E n \in CollNames : CollDocs(n) # <<>>

\* list(cursor): what synchronous iteration of the cursor yields before it
\* raises StopIteration
RECURSIVE SyncList(_)
SyncList(cursor) ==
  LET out == CursorNext(cursor) IN
  IF out.ret.kind = "StopIteration" THEN <<>>
  ELSE <<out.ret.doc>> \o SyncList(out.cursor)

\* C11: async iteration of a cursor yields the documents synchronous iteration
\* yields, in the same order, raises StopAsyncIteration exactly at the step
\* where next() raises StopIteration, and no step suspends the task
C11_AsyncIterationIsSync ==
  hist.op = "anext" =>
    LET all == SyncList(hist.start) IN
    /\ all = hist.start.docs
    /\ hist.got = SubSeq(all, 1, Len(hist.got))
    /\ ret.kind \in { "doc", "StopAsyncIteration" }
    /\ ret.kind = "doc" <=> hist.steps <= Len(all)
    /\ ret.kind = "doc" => Len(hist.got) = hist.steps /\ ret.doc = all[hist.steps]
    /\ ret.kind = "StopAsyncIteration" =>
         hist.got = all /\ hist.steps = Len(all) + 1
    /\ pc = "test"
    /\ job = NoJob
    /\ dbs = hist.pre

\* C11 witness: async iteration has yielded the two documents of a collection
\* and then raised StopAsyncIteration
C11_Witness ==
  /\ hist.op = "anext"
  /\ ret.kind = "StopAsyncIteration"
  /\ Len(hist.got) = 2
  /\ hist.got = Looked

\* the directory the run was started in
StartDir == DirCwd

\* the directory the configuration asks for when an option value counts as
\* given under the test given
Effective(given(_)) ==
  IF given(env.option) THEN env.option.val
  ELSE IF env.inifile.kind = "str" THEN env.inifile.val
  ELSE StartDir

IsGiven(x) == x.kind = "str"
IsGivenNotEmpty(x) == x.kind = "str" /\ x.val # ""

\* load_fixtures lists the directory dir and nothing is read from another one
OnlyFrom(dir) ==
  /\ basedir # NoValue => basedir.val = dir
  /\ pc \in { "scan", "docs", "insert", "failed" } =>
       /\ basedir # NoValue
       /\ \E k \in 1..(Len(ListDir(dir)) + 1) :
            todo = SubSeq(ListDir(dir), k, Len(ListDir(dir)))
  /\ \A p \in DOMAIN cache \cup DOMAIN reads : p[1] = dir

\* C12, as claimed: the fixture directory is the command-line value whenever
\* one is given, else the ini value, else the working directory at the start
\* of the run, and files are enumerated and read from no other directory
C12_OptionWhenGiven == OnlyFrom(Effective(IsGiven))

\* C12, amended: the fixture directory is the command-line value whenever a
\* non-empty one is given, else the ini value, else the working directory at
\* the start of the run, and files are enumerated and read from no other
\* directory
C12_OptionWhenNotEmpty == OnlyFrom(Effective(IsGivenNotEmpty))

\* C12 witness: with a command-line directory and an ini directory a setup
\* has loaded the file of the command-line directory
C12_Witness ==
  /\ SetupFinished
  /\ env.option = Str(DirOpt)
  /\ env.inifile = Str(DirIni)
  /\ basedir = Str(DirOpt)
  /\ CollDocs(NameB) # <<>>
  /\ DOMAIN cache = { <<DirOpt, <<"b", ".", "j", "s", "o", "n">>>> }

\* C13: however concurrent load_fixture executions for one path interleave,
\* every list stored for the path is the file's decoded content, the cached
\* list stays that content (a document decoded without _id carrying the _id
\* insert_one gave it), the file is decoded at most once per loader, and every
\* loader inserts the file's documents, in file order
C13_RaceKeepsCache ==
  race.on =>
    LET file == ReadFile(RacePath) IN
    /\ \A k \in DOMAIN race.stores : race.stores[k] = file
    /\ \A p \in DOMAIN cache :
         /\ p = RacePath
         /\ Len(cache[p]) = Len(file)
         /\ \A i \in DOMAIN file : AsDecoded(cache[p][i], file[i])
    /\ \A p \in DOMAIN reads : p = RacePath /\ reads[p] <= MaxLoaders
    /\ \A l \in Loaders :
         LET me == race.ld[l] IN
         /\ me.pc \in { "docs", "done", "failed" } =>
              AllAsListed(me.db) = SubSeq(file, 1, me.i - 1)
         /\ me.pc = "done" => AllAsListed(me.db) = file
         /\ me.pc = "failed" =>
              \E j \in 1..(me.i - 1) : file[j]._id = file[me.i]._id
         /\ me.pc \in { "start", "open", "store" } => me.db = <<>>

\* C13 witness: two loaders have decoded the file, both have stored their
\* list and inserted its documents
C13_Witness ==
  /\ race.on
  /\ RacePath \in DOMAIN reads
  /\ reads[RacePath] = 2
  /\ Len(race.stores) = 2
  /\ \A l \in Loaders : race.ld[l].pc = "done" /\ Len(race.ld[l].db) = 2

\* the cached lists of the loadable files named name.json, name.yaml among
\* the entries s, the files in the order of s
RECURSIVE CachedFor(_, _)
CachedFor(name, s) ==
  IF s = <<>> THEN <<>>
  ELSE (IF Loadable(Head(s)) /\ FixtureName(Head(s)) = name
          THEN cache[Path(Str(DirCwd), Head(s))] ELSE <<>>)
         \o CachedFor(name, Tail(s))

\* C14: every setup starts on a client of its own, without databases other
\* than the one it creates and without collections, whatever the tests before
\* it did; the database a test receives holds what the fixture files, the
\* configuration and the fixture cache determine, and nothing else
C14_NothingCarriedOver ==
  /\ pc \in { "clean", "clean_wait", "load" } =>
       /\ dbs = (TheDb :> [type |-> "AsyncDatabase", id |-> 1, colls |-> EmptyMap])
       /\ nextId = 2
  /\ InSetup => DOMAIN dbs = { TheDb }
  /\ SetupFinished =>
       /\ \A n \in CollNames :
            /\ CollDocs(n) = CachedFor(n, listing)
            /\ AllAsListed(CollDocs(n)) = ListedFor(n, listing)
       /\ DOMAIN dbs[TheDb].colls = { n \in CollNames : ListedFor(n, listing) # <<>> }

\* C14 witness: the first test inserted a document of its own, and the second
\* test has received a database without it
C14_Witness ==
  /\ tests = 2
  /\ SetupFinished
  /\ fixtures = <<>>
  /\ nextOid > 1
  /\ dbs[TheDb].colls = EmptyMap

\* the task has given control to the event loop and has not been resumed
Suspended == pc \in { "clean_wait", "insert", "await", "sleep" }

\* the name is in the ASYNC_METHODS list of the type
AllowListed(type, name) ==
  \/ type = "AsyncCollection" /\ name \in CollectionAsyncMethods
  \/ type = "AsyncDatabase" /\ name \in DatabaseAsyncMethods

\* an allow-listed call is with the executor: queued, running or completed
WithExecutor ==
  /\ job.state \in { "queued", "running", "done" }
  /\ AllowListed(job.func.type, job.func.name)

\* the operations of this layer that are not adapted calls or session steps
\* leave the task running
OthersDoNotSuspend ==
  hist.op \in { "find", "find_one", "get_collection", "get_database", "anext" } =>
    pc = "test" /\ job = NoJob

\* C15, as claimed: whenever the task is suspended it waits for an adapted
\* call handed to a worker thread, it is resumed when that call has completed,
\* and no other operation suspends it
C15_OnlyAdaptedSuspend ==
  /\ Suspended => WithExecutor
  /\ ~Suspended => job = NoJob
  /\ hist.op = "await" => hist.calls = 1
  /\ OthersDoNotSuspend

\* C15, amended: whenever the task is suspended it either waits for an adapted
\* call handed to a worker thread, and is resumed when that call has
\* completed, or it is in start_session, in the entry or in the exit of a
\* session block, which give control to the event loop once without handing
\* work to a thread; no other operation suspends it
C15_AdaptedOrSessionSuspend ==
  /\ pc \in { "clean_wait", "insert", "await" } => WithExecutor
  /\ pc = "sleep" =>
       /\ job = NoJob
       /\ hist.op = "session"
       /\ sess \in { "starting", "entering", "exiting" }
  /\ ~Suspended => job = NoJob
  /\ hist.op = "await" => hist.calls = 1
  /\ OthersDoNotSuspend

\* C15 witness: a test that worked on its collections inside a session block
\* is suspended in the exit of the block, no call being with the executor
C15_Witness ==
  /\ pc = "sleep"
  /\ sess = "exiting"
  /\ ops = MaxOps
  /\ job = NoJob

\* what C16 has in common in both readings: a call is handed to the executor
\* when and only when its name is allow-listed, and find, find_one and
\* get_collection, which are not, run in the caller
ListDecides ==
  /\ job.state # "none" => AllowListed(job.func.type, job.func.name)
  /\ hist.op \in { "call", "await" } => AllowListed("AsyncCollection", hist.name)
  /\ hist.op = "direct" => ~AllowListed("AsyncCollection", hist.name)
  /\ hist.op \in { "find", "find_one" } =>
       ~AllowListed("AsyncCollection", hist.op) /\ pc = "test" /\ job = NoJob
  /\ hist.op = "get_collection" =>
       ~AllowListed("AsyncDatabase", hist.op) /\ pc = "test" /\ job = NoJob

\* C16, as claimed: a method is handed to a worker thread and awaited if and
\* only if its name is in the ASYNC_METHODS list of its type; every other
\* method runs in the caller and its call returns the result
C16_OthersReturnResult ==
  /\ ListDecides
  /\ hist.op = "find_one" => ~hist.coroutine

\* C16, amended: a method is handed to a worker thread and awaited if and
\* only if its name is in the ASYNC_METHODS list of its type; every other
\* method runs in the caller; the call of an engine method or of find returns
\* the result, the call of find_one, which this layer defines as a coroutine,
\* returns a coroutine that has to be awaited and never suspends
C16_OthersRunInCaller ==
  /\ ListDecides
  /\ hist.op = "find_one" => hist.coroutine
  /\ hist.op = "find" => ret.kind \in { "cursor", "TypeError" }

\* C16 witness: find_one, not allow-listed, has returned a document to a test
\* that awaited it, without a call handed to the executor
C16_Witness ==
  /\ hist.op = "find_one"
  /\ hist.coroutine
  /\ ret.kind = "doc"
  /\ pc = "test"
  /\ job = NoJob
  /\ hist.filter = FilterMap(EmptyMap)

\* the entries load_fixtures has gone through before the file it is loading
Visited == SubSeq(listing, 1, Len(listing) - Len(todo) - 1)

\* the documents of the file being loaded that have been inserted
Inserted ==
  SubSeq(cache[cur.path], 1,
         IF pc = "insert" /\ job.state = "done" /\ job.result.kind = "InsertOneResult"
           THEN cur.i ELSE cur.i - 1)

\* the collections hold the documents of the files gone through and the
\* documents inserted from the file being loaded, in that order
LoadedSoFar ==
  \A n \in CollNames :
    CollDocs(n) = CachedFor(n, Visited) \o (IF n = cur.collection THEN Inserted ELSE <<>>)

\* C17: fixture documents are inserted one call each, in file order and file
\* after file: when the insert of a document is handed to the executor, the
\* documents before it and the files before its file are in their
\* collections, the next insert is not called before the call has completed,
\* and no call is in flight between two inserts
C17_OneInsertAtATime ==
  /\ pc \in { "docs", "insert" } =>
       /\ cur.path = Path(Str(DirCwd), listing[Len(listing) - Len(todo)])
       /\ cur.i \in 1..(Len(cache[cur.path]) + 1)
       /\ LoadedSoFar
  /\ pc = "insert" =>
       /\ job.state \in { "queued", "running", "done" }
       /\ job.func.name = "insert_one"
       /\ job.func.coll = cur.collection
       /\ job.args.ref = <<cur.path, cur.i>>
       /\ job.state # "done" => job.args.data = cache[cur.path][cur.i]
  /\ pc \in { "docs", "scan", "load", "return" } => job = NoJob
  /\ pc = "scan" =>
       \A n \in CollNames :
         CollDocs(n) = CachedFor(n, SubSeq(listing, 1, Len(listing) - Len(todo)))

\* C17 witness: the second document of the second file is handed to the
\* executor, the first file's documents and the second file's first document
\* being in their collections
C17_Witness ==
  /\ pc = "insert"
  /\ job.state = "queued"
  /\ cur.i = 2
  /\ Len(listing) = 2
  /\ todo = <<>>
  /\ \E n \in CollNames : CachedFor(n, Visited) # <<>>
  /\ Len(CollDocs(cur.collection)) >= 1

\* the setup stands where the insert of a document has raised
FailedState ==
  pc = "failed" =>
    /\ ret = [kind |-> "DuplicateKeyError"]
    /\ job = NoJob
    /\ done = <<"clean">>
    /\ cur.path \in DOMAIN cache
    /\ Len(cache[cur.path]) = Len(parsed[cur.path])
    /\ cur.i \in DOMAIN cache[cur.path]
    /\ LoadedSoFar
    /\ \E j \in DOMAIN CollDocs(cur.collection) :
         CollDocs(cur.collection)[j]._id = cache[cur.path][cur.i]._id

\* an insert that raised ends the setup with what it raised, and the failed
\* setup touches neither the database nor the cache again
FailedStep ==
  /\ (pc = "insert" /\ job.state = "done" /\ job.result.kind = "DuplicateKeyError") =>
       pc' = "failed" /\ ret' = job.result /\ dbs' = dbs /\ cache' = cache
  /\ pc = "failed" => pc' = "idle" /\ dbs' = dbs /\ cache' = cache

\* C19: when the insert of the k-th document of a file raises, the setup ends
\* with that error; the documents before it and the files before its file
\* stay inserted, no later document or file is inserted, nothing is undone,
\* and the cache keeps the file's list
C19_FailureStopsLoading == []FailedState /\ [][FailedStep]_vars

\* C19 witness: the second document of a file has raised, its first document
\* is in the collection and a file after it has not been gone through
C19_Witness ==
  /\ pc = "failed"
  /\ cur.i = 2
  /\ Len(CollDocs(cur.collection)) = 1
  /\ \E f \in Range(todo) : Loadable(f) /\ disk[f] # <<>>

\* a completed call has run once and the store is as the call left it; a
\* dropped call has not run
DoneApplied ==
  /\ job.state = "done" =>
       job.calls = 1 /\ dbs = Call(job.func, job.args, job.pre).dbs
  /\ job.state = "cancelled" => job.calls = 0 /\ pc = "cancelled"

\* a call a thread has started stays with the thread until it returns
StartedStep ==
  job.state = "running" => job'.state \in { "running", "done" }

====
